---------------------------- MODULE Spec2Model ----------------------------
(***************************************************************************)
(* State-machine model of the VideoFrameSelector component                 *)
(* (src/src/components/VideoFrameSelector.tsx).                            *)
(*                                                                         *)
(* Time is counted in units of 0.05 s, so that the slider step of 0.1 s is *)
(* two units and durations that are not a multiple of the step exist.      *)
(* The timers of the event loop are kept in one queue in registration      *)
(* order; a timer may fire when no timer registered before it has a delay  *)
(* that is not longer (such a timer has an earlier deadline).              *)
(***************************************************************************)
EXTENDS Integers, Sequences, FiniteSets

VARIABLES
    mounted,            \* the component is mounted
    videoFile,          \* prop videoFile: the first file, the second, ...
    selectedTimestamp,  \* prop selectedTimestamp: {} when absent, {t} otherwise
    duration,           \* useState duration
    currentTime,        \* useState currentTime
    loading,            \* useState loading
    error,              \* useState error
    hasElements,        \* useState video / canvas are set
    videoSrc,           \* video.src: 0 when unset, else the blob URL's id
    videoCurrentTime,   \* the position last assigned to video.currentTime
    seeking,            \* the element has a seek in progress
    decoder,            \* what the element has announced for its current src
    metaListener,       \* registered 'loadedmetadata' listeners
    errorListener,      \* registered 'error' listeners
    seekedListeners,    \* registered 'seeked' listeners, in registration order
    timers,             \* pending setTimeout callbacks, in registration order
    urls,               \* blob URLs created and not yet revoked
    cleanup,            \* effect run whose cleanup function React holds, 0 if none
    gen,                \* number of runs of the initialize effect so far
    requests,           \* the times of the handleSliderChange calls, in order
    lastRaw,            \* the position the user asked for in the last call
    attempts,           \* log of the captureFrame calls
    failures            \* number of captureFrame calls that failed so far

vars == <<mounted, videoFile, selectedTimestamp, duration, currentTime, loading,
          error, hasElements, videoSrc, videoCurrentTime, seeking, decoder,
          metaListener, errorListener, seekedListeners, timers, urls, cleanup,
          gen, requests, lastRaw, attempts, failures>>

---------------------------------------------------------------------------
(* Bounds of the model *)

MaxDuration == 4
MaxInputs == 3

(* Program constants *)

Step == 2
InitialCaptureDelay == 100
SeekTimeout == 500
LoadTimeout == 10000

\* The durations a file may have, the positions the user may ask the slider
\* for (below the range, between two steps, on a step, above the range), and
\* the values the parent may pass as selectedTimestamp (absent, below the
\* range, inside it, above it).
Durations == (MaxDuration - 1)..MaxDuration
SliderInputs == {0 - 1, 1, Step, MaxDuration + 1}
SelectedTimestamps == {{}, {0 - 1}, {1}, {MaxDuration + 1}}
NoError == "null"
LoadFailedMessage == "Failed to load video. Please try a different file."
LoadTimeoutMessage == "Video took too long to load. Please try again."
InitErrorMessage == "Unknown error"

---------------------------------------------------------------------------
(* Pure helpers *)

\* selectedTimestamp ?? 0
OrZero(sel) == IF sel = {} THEN 0 ELSE CHOOSE t \in sel : TRUE

\* The conditional rendering of the component.
Status ==
    IF loading THEN "Loading"
    ELSE IF error # NoError THEN "Error"
    ELSE "Ready"

\* The range input is in the document.
SliderRendered ==
    mounted /\ hasElements /\ Status = "Ready" /\ duration > 0

Abs(x) == IF x < 0 THEN 0 - x ELSE x

\* A range input that has no max attribute.
RangeValueNoMax(raw, max) ==
    IF raw < 0 THEN 0 ELSE raw + (raw % Step)

\* The value a range input with min 0, max `max` and step Step holds after the
\* user asks for `raw`: clamped to [0, max], then moved to the nearest multiple
\* of the step inside [0, max], the larger one on a tie.
RangeValue(raw, max) ==
    LET clamped == IF raw < 0 THEN 0 ELSE IF raw > max THEN max ELSE raw
        grid == {v \in 0..max : v % Step = 0}
        near == {v \in grid : \A w \in grid : Abs(v - clamped) <= Abs(w - clamped)}
    IN  CHOOSE v \in near : \A w \in near : w <= v

Delay(kind) ==
    CASE kind = "initial" -> InitialCaptureDelay
      [] kind = "seek"    -> SeekTimeout
      [] kind = "load"    -> LoadTimeout

\* The timer at position i of the queue is the next of its deadline class.
CanFire(i) ==
    \A j \in 1..(i - 1) : Delay(timers[j].kind) > Delay(timers[i].kind)

RemoveAt(s, i) == SubSeq(s, 1, i - 1) \o SubSeq(s, i + 1, Len(s))

Timer(kind, g, time, req, seen) ==
    [kind |-> kind, gen |-> g, time |-> time, req |-> req, seen |-> seen]

\* A state setter of an unmounted component does nothing.
SetState(old, new) == IF mounted THEN new ELSE old

\* A captureFrame that reaches onFrameSelect although the capture failed.
CaptureFrameAlwaysDelivers(log, time, via, req, g, ok) ==
    Append(log, [time |-> time, via |-> via, req |-> req, gen |-> g, ok |-> TRUE])

\* captureFrame(time, v, c): one more entry of the log; onFrameSelect is invoked
\* exactly when ok. via names the callback that called it, req the request
\* (0 for the initial capture) and g the effect run it belongs to.
CaptureFrame(log, time, via, req, g, ok) ==
    Append(log, [time |-> time, via |-> via, req |-> req, gen |-> g, ok |-> ok])

\* The number of handleSliderChange calls so far; request r is the r-th call.
reqs == Len(requests)

\* The inputs the environment has given so far: effect runs, slider moves and
\* failed captures.
Inputs == gen + reqs + failures

\* The outcomes captureFrame may have in this step.
Outcomes == IF Inputs < MaxInputs THEN BOOLEAN ELSE {TRUE}

\* The onFrameSelect invocations, in order.
Frames == SelectSeq(attempts, LAMBDA a : a.ok)

---------------------------------------------------------------------------
(* The cleanup function of the initialize effect *)

CleanupTimers(ts, g) ==
    SelectSeq(ts, LAMBDA t : ~(t.kind = "load" /\ t.gen = g))

CleanupMetaListener(ls, g) == {l \in ls : l.gen # g}

CleanupErrorListener(ls, g) == ls \ {g}

\* A cleanup function that does not revoke the URL.
CleanupUrlsKept(us, g) == us

CleanupUrls(us, g) == us \ {g}

---------------------------------------------------------------------------
Init ==
    /\ mounted = TRUE
    /\ videoFile = 1
    /\ selectedTimestamp \in SelectedTimestamps
    /\ duration = 0
    /\ currentTime = OrZero(selectedTimestamp)
    /\ loading = TRUE
    /\ error = NoError
    /\ hasElements = FALSE
    /\ videoSrc = 0
    /\ videoCurrentTime = 0
    /\ seeking = FALSE
    /\ decoder = "idle"
    /\ metaListener = {}
    /\ errorListener = {}
    /\ seekedListeners = <<>>
    /\ timers = <<>>
    /\ urls = {}
    /\ cleanup = 0
    /\ gen = 0
    /\ requests = <<>>
    /\ lastRaw = 0
    /\ attempts = <<>>
    /\ failures = 0

\* One run of the initialize effect, preceded by the cleanup of the run before
\* it. seen is the value of `loading` in the render that scheduled the effect;
\* created is whether URL.createObjectURL returned.
InitEffect(seen, created) ==
    LET g == gen + 1
        ts == IF cleanup = 0 THEN timers ELSE CleanupTimers(timers, cleanup)
        ml == IF cleanup = 0 THEN metaListener
              ELSE CleanupMetaListener(metaListener, cleanup)
        el == IF cleanup = 0 THEN errorListener
              ELSE CleanupErrorListener(errorListener, cleanup)
        us == IF cleanup = 0 THEN urls ELSE CleanupUrls(urls, cleanup)
    IN  /\ gen' = g
        /\ IF created
           THEN /\ loading' = TRUE
                /\ error' = NoError
                /\ urls' = us \cup {g}
                /\ videoSrc' = g
                /\ decoder' = "loading"
                /\ seeking' = FALSE
                /\ videoCurrentTime' = 0
                /\ metaListener' = ml \cup {[gen |-> g, time |-> OrZero(selectedTimestamp')]}
                /\ errorListener' = el \cup {g}
                /\ timers' = Append(ts, Timer("load", g, 0, 0, seen))
                /\ cleanup' = g
           ELSE /\ loading' = FALSE
                /\ error' = InitErrorMessage
                /\ urls' = us
                /\ metaListener' = ml
                /\ errorListener' = el
                /\ timers' = ts
                /\ cleanup' = 0
                /\ UNCHANGED <<videoSrc, decoder, seeking, videoCurrentTime>>
        /\ UNCHANGED <<mounted, duration, currentTime, seekedListeners, requests, lastRaw,
                       attempts, failures>>

\* The first effects after mounting: the elements are created, the component
\* renders again and the initialize effect runs for the first time.
Mount ==
    /\ mounted /\ ~hasElements
    /\ hasElements' = TRUE
    /\ UNCHANGED <<videoFile, selectedTimestamp>>
    /\ \E created \in BOOLEAN : InitEffect(loading, created)

\* The parent passes another file.
ChangeFile ==
    /\ mounted /\ hasElements /\ Inputs < MaxInputs
    /\ videoFile' = videoFile + 1
    /\ UNCHANGED <<selectedTimestamp, hasElements>>
    /\ \E created \in BOOLEAN : InitEffect(loading, created)

\* The parent passes another selectedTimestamp.
ChangeSelectedTimestamp ==
    /\ mounted /\ hasElements /\ Inputs < MaxInputs
    /\ \E s \in SelectedTimestamps \ {selectedTimestamp} : selectedTimestamp' = s
    /\ UNCHANGED <<videoFile, hasElements>>
    /\ \E created \in BOOLEAN : InitEffect(loading, created)

\* The decoder announces the metadata of the current src, with duration d. The
\* 'loadedmetadata' listeners run once and are removed.
LoadedMetadata ==
    /\ decoder = "loading"
    /\ decoder' = "ready"
    /\ metaListener' = {}
    /\ IF metaListener = {}
       THEN UNCHANGED <<duration, currentTime, videoCurrentTime, seeking, timers>>
       ELSE LET l == CHOOSE l \in metaListener : TRUE
            IN  \E d \in Durations :
                  /\ duration' = SetState(duration, d)
                  /\ currentTime' = SetState(currentTime, l.time)
                  /\ videoCurrentTime' = l.time
                  /\ seeking' = TRUE
                  /\ timers' = Append(timers, Timer("initial", l.gen, l.time, 0, FALSE))
    /\ UNCHANGED <<mounted, videoFile, selectedTimestamp, loading, error,
                   hasElements, videoSrc, errorListener, seekedListeners, urls,
                   cleanup, gen, requests, lastRaw, attempts, failures>>

\* The decoder reports an error for the current src: it rejects the input
\* ("rejected", no metadata was announced) or fails after the metadata
\* ("failed"). The 'error' listeners run once and are removed.
DecoderError ==
    /\ decoder \in {"loading", "ready"}
    /\ decoder' = IF decoder = "loading" THEN "rejected" ELSE "failed"
    /\ seeking' = FALSE
    /\ errorListener' = {}
    /\ IF errorListener = {}
       THEN UNCHANGED <<error, loading>>
       ELSE /\ error' = SetState(error, LoadFailedMessage)
            /\ loading' = SetState(loading, FALSE)
    /\ UNCHANGED <<mounted, videoFile, selectedTimestamp, duration, currentTime,
                   hasElements, videoSrc, videoCurrentTime, metaListener,
                   seekedListeners, timers, urls, cleanup, gen, requests, lastRaw, attempts,
                   failures>>

\* The 100 ms timer of handleLoadedMetadata fires.
InitialCaptureTimer ==
    \E i \in 1..Len(timers) :
      /\ timers[i].kind = "initial"
      /\ CanFire(i)
      /\ timers' = RemoveAt(timers, i)
      /\ \E ok \in Outcomes :
            /\ attempts' = CaptureFrame(attempts, timers[i].time, "initial", 0,
                                        timers[i].gen, ok)
            /\ failures' = IF ok THEN failures ELSE failures + 1
      /\ loading' = SetState(loading, FALSE)
      /\ UNCHANGED <<mounted, videoFile, selectedTimestamp, duration, currentTime,
                     error, hasElements, videoSrc, videoCurrentTime, seeking,
                     decoder, metaListener, errorListener, seekedListeners, urls,
                     cleanup, gen, requests, lastRaw>>

\* What the 10 s timer does with the `loading` its closure holds.
LoadTimeoutSets(seen) == seen

\* The 10 s timer of the initialize effect fires.
LoadTimeoutTimer ==
    \E i \in 1..Len(timers) :
      /\ timers[i].kind = "load"
      /\ CanFire(i)
      /\ timers' = RemoveAt(timers, i)
      /\ IF LoadTimeoutSets(timers[i].seen)
         THEN /\ error' = SetState(error, LoadTimeoutMessage)
              /\ loading' = SetState(loading, FALSE)
         ELSE UNCHANGED <<error, loading>>
      /\ UNCHANGED <<mounted, videoFile, selectedTimestamp, duration, currentTime,
                     hasElements, videoSrc, videoCurrentTime, seeking, decoder,
                     metaListener, errorListener, seekedListeners, urls, cleanup,
                     gen, requests, lastRaw, attempts, failures>>

\* A timer callback that leaves the seeked listener registered.
RemoveSeekedNone(ls, r) == ls

\* The seeked listeners left after removeEventListener('seeked', handleSeeked)
\* of request r.
RemoveSeeked(ls, r) == SelectSeq(ls, LAMBDA l : l.req # r)

\* A handleSliderChange that sets the fallback timer twice.
SeekTimersTwice(ts, g, time, r) ==
    Append(Append(ts, Timer("seek", g, time, r, FALSE)),
           Timer("seek", g, time, r, FALSE))

\* A handleSliderChange that sets no fallback timer.
SeekTimersNone(ts, g, time, r) == ts

\* The pending timers after handleSliderChange has run for request r.
SeekTimers(ts, g, time, r) == Append(ts, Timer("seek", g, time, r, FALSE))

\* What handleSliderChange passes to setCurrentTime when the state holds
\* current and the input holds time: a handler that leaves the update to the
\* capture would pass current.
SliderCurrentTimeDeferred(current, time) == current

SliderCurrentTime(current, time) == time

\* handleSliderChange: the user moves the range input towards raw. Assigning
\* video.currentTime starts a seek when the element has its metadata.
HandleSliderChange ==
    /\ SliderRendered
    /\ Inputs < MaxInputs
    /\ \E raw \in SliderInputs :
         LET time == RangeValue(raw, duration)
             r == reqs + 1
         IN  /\ currentTime' = SliderCurrentTime(currentTime, time)
             /\ videoCurrentTime' = time
             /\ seeking' = IF decoder = "ready" THEN TRUE ELSE seeking
             /\ requests' = Append(requests, time)
             /\ lastRaw' = raw
             /\ seekedListeners' =
                   Append(seekedListeners, [time |-> time, req |-> r, gen |-> gen])
             /\ timers' = SeekTimers(timers, gen, time, r)
    /\ UNCHANGED <<mounted, videoFile, selectedTimestamp, duration, loading, error,
                   hasElements, videoSrc, decoder, metaListener, errorListener,
                   urls, cleanup, gen, attempts, failures>>

\* The log after every registered seeked listener has run, in registration
\* order.
RECURSIVE RunSeeked(_, _, _)
RunSeeked(log, ls, ok) ==
    IF ls = <<>> THEN log
    ELSE RunSeeked(CaptureFrame(log, Head(ls).time, "seeked", Head(ls).req,
                                Head(ls).gen, ok),
                   Tail(ls), ok)

\* The element finishes the seek in progress and dispatches 'seeked'.
Seeked ==
    /\ seeking
    /\ seeking' = FALSE
    /\ seekedListeners' = <<>>
    /\ \E ok \in Outcomes :
         /\ attempts' = RunSeeked(attempts, seekedListeners, ok)
         /\ failures' = IF ok \/ seekedListeners = <<>> THEN failures
                        ELSE failures + 1
    /\ UNCHANGED <<mounted, videoFile, selectedTimestamp, duration, currentTime,
                   loading, error, hasElements, videoSrc, videoCurrentTime,
                   decoder, metaListener, errorListener, timers, urls, cleanup,
                   gen, requests, lastRaw>>

\* The 500 ms timer of handleSliderChange fires.
SeekTimer ==
    \E i \in 1..Len(timers) :
      /\ timers[i].kind = "seek"
      /\ CanFire(i)
      /\ timers' = RemoveAt(timers, i)
      /\ seekedListeners' = RemoveSeeked(seekedListeners, timers[i].req)
      /\ \E ok \in Outcomes :
            /\ attempts' = CaptureFrame(attempts, timers[i].time, "timer",
                                        timers[i].req, timers[i].gen, ok)
            /\ failures' = IF ok THEN failures ELSE failures + 1
      /\ UNCHANGED <<mounted, videoFile, selectedTimestamp, duration, currentTime,
                     loading, error, hasElements, videoSrc, videoCurrentTime,
                     seeking, decoder, metaListener, errorListener, urls, cleanup,
                     gen, requests, lastRaw>>

\* The component is unmounted: React runs the cleanup functions of its effects.
Unmount ==
    /\ mounted
    /\ mounted' = FALSE
    /\ cleanup' = 0
    /\ timers' = IF cleanup = 0 THEN timers ELSE CleanupTimers(timers, cleanup)
    /\ metaListener' = IF cleanup = 0 THEN metaListener
                       ELSE CleanupMetaListener(metaListener, cleanup)
    /\ errorListener' = IF cleanup = 0 THEN errorListener
                        ELSE CleanupErrorListener(errorListener, cleanup)
    /\ urls' = IF cleanup = 0 THEN urls ELSE CleanupUrls(urls, cleanup)
    /\ UNCHANGED <<videoFile, selectedTimestamp, duration, currentTime, loading,
                   error, hasElements, videoSrc, videoCurrentTime, seeking,
                   decoder, seekedListeners, gen, requests, lastRaw, attempts, failures>>

Next ==
    \/ Mount
    \/ ChangeFile
    \/ ChangeSelectedTimestamp
    \/ LoadedMetadata
    \/ DecoderError
    \/ InitialCaptureTimer
    \/ LoadTimeoutTimer
    \/ HandleSliderChange
    \/ Seeked
    \/ SeekTimer
    \/ Unmount

Spec == Init /\ [][Next]_vars

---------------------------------------------------------------------------
(* Vocabulary of the claims *)

\* The positions of the log entries the current step has added.
NewAttempts == (Len(attempts) + 1)..Len(attempts')

\* The log entries of request r.
AttemptsOf(r) == {i \in 1..Len(attempts) : attempts[i].req = r}

\* The onFrameSelect invocations of request r.
FramesOf(r) == {i \in AttemptsOf(r) : attempts[i].ok}

\* The current step is the firing of the 10 s timer of the current effect run.
LoadTimerFires ==
    /\ mounted' = mounted /\ gen' = gen
    /\ \E i \in 1..Len(timers) :
          /\ timers[i].kind = "load" /\ timers[i].gen = gen
          /\ timers' = RemoveAt(timers, i)

\* The current step is the firing of the 100 ms timer of the current effect run.
InitialTimerFires ==
    /\ mounted' = mounted /\ gen' = gen
    /\ \E i \in 1..Len(timers) :
          /\ timers[i].kind = "initial" /\ timers[i].gen = gen
          /\ timers' = RemoveAt(timers, i)

---------------------------------------------------------------------------
(* Claims *)

\* C1: onFrameSelect is invoked only for a request that is still the most
\* recent request when its seeked listener or its timer runs; a superseded
\* request never produces an onFrameSelect invocation.
C1_OnlyLatestRequestDelivers ==
    [][\A i \in NewAttempts :
          (attempts'[i].ok /\ attempts'[i].req > 0) => attempts'[i].req = reqs]_vars

\* C2: each request makes exactly one capture attempt: its seeked listener and
\* its 500 ms timer never both call captureFrame.
C2_OneAttemptPerRequest ==
    \A r \in 1..reqs : Cardinality(AttemptsOf(r)) <= 1

\* C4: whenever the status is Ready, 0 <= currentTime <= duration.
C4_CurrentTimeInRange ==
    Status = "Ready" => (0 <= currentTime /\ currentTime <= duration)

\* C6: once the metadata of the current file has arrived, the decoder raises no
\* error event for it and the status is Ready, the status stays Ready (it never
\* becomes Error) until a new file is assigned or the component is unmounted.
C6_ReadyStaysReady ==
    [][(/\ mounted /\ mounted' /\ gen' = gen /\ videoSrc = gen
        /\ decoder = "ready" /\ decoder' = "ready"
        /\ Status = "Ready") => Status' = "Ready"]_vars

\* C7: when the 10 s timer of a load fires and neither the metadata nor an
\* error of that load has arrived, the status becomes Error.
C7_LoadTimeoutSetsError ==
    [][(LoadTimerFires /\ mounted /\ decoder = "loading") => Status' = "Error"]_vars

\* C8: a callback registered by an earlier effect run, or before the unmount,
\* never calls captureFrame afterwards.
C8_NoCallbackOfPreviousSession ==
    [][\A i \in NewAttempts : mounted /\ attempts'[i].gen = gen]_vars

\* C9: the only blob URL that may be live is the one of the current effect run,
\* which the held cleanup function revokes, and none is live after the unmount.
C9_NoUrlLeak ==
    /\ \A u \in urls : u = gen /\ cleanup = u
    /\ ~mounted => urls = {}

\* C9 witness: a file swap and the unmount have both happened.
C9_Witness ==
    ~mounted /\ gen >= 2 /\ videoSrc = gen /\ urls = {}

\* The specification of a session whose rendering context is always available
\* and whose event loop runs every timer that is due.
NextNoFailure ==
    \/ Mount
    \/ ChangeFile
    \/ ChangeSelectedTimestamp
    \/ LoadedMetadata
    \/ DecoderError
    \/ InitialCaptureTimer /\ failures' = failures
    \/ LoadTimeoutTimer
    \/ HandleSliderChange
    \/ Seeked /\ failures' = failures
    \/ SeekTimer /\ failures' = failures
    \/ Unmount

FairSpec ==
    /\ Init
    /\ [][NextNoFailure]_vars
    /\ WF_vars(SeekTimer /\ failures' = failures)
    /\ WF_vars(InitialCaptureTimer /\ failures' = failures)
    /\ WF_vars(LoadTimeoutTimer)

\* C3: every request is eventually followed by an onFrameSelect invocation made
\* by its 500 ms timer, with the request's timestamp, whether or not the
\* decoder ever dispatches 'seeked'.
C3_TimeoutFallbackDelivers ==
    \A r \in 1..(MaxInputs - 1) :
       (reqs >= r) ~>
          (\E i \in FramesOf(r) :
              attempts[i].via = "timer" /\ attempts[i].time = requests[r])

\* C3 witness: a request whose only capture is the one of its timer.
C3_Witness ==
    \E r \in 1..reqs :
       /\ \E i \in FramesOf(r) : attempts[i].via = "timer"
       /\ \A i \in AttemptsOf(r) : attempts[i].via # "seeked"

Clamp(t, max) == IF t < 0 THEN 0 ELSE IF t > max THEN max ELSE t

\* The current step is a handleSliderChange call.
RequestStep == Len(requests') = Len(requests) + 1

\* C5 as stated: after requestSeek(t), currentTime and the position commanded
\* on the video are min(max(t, 0), duration).
C5_ClampsToDuration ==
    [][RequestStep =>
          /\ currentTime' = Clamp(lastRaw', duration)
          /\ videoCurrentTime' = Clamp(lastRaw', duration)]_vars

\* C5 amended: after requestSeek(t), currentTime and the position commanded on
\* the video are the multiple of the slider step inside [0, duration] that is
\* nearest to min(max(t, 0), duration) (the larger one on a tie), and every
\* capture of the request carries that value.
C5_ClampsToStepGrid ==
    /\ [][RequestStep =>
             LET c == Clamp(lastRaw', duration)
                 t == currentTime'
             IN  /\ videoCurrentTime' = t
                 /\ requests'[Len(requests')] = t
                 /\ 0 <= t /\ t <= duration /\ t % Step = 0
                 /\ \A v \in 0..duration :
                       v % Step = 0 =>
                          \/ Abs(t - c) < Abs(v - c)
                          \/ (Abs(t - c) = Abs(v - c) /\ v <= t)]_vars
    /\ [](\A i \in 1..Len(attempts) :
             attempts[i].req > 0 => attempts[i].time = requests[attempts[i].req])

\* C5 witness: on a video whose duration is not a multiple of the step, a
\* request above the range has delivered a frame below the duration.
C5_Witness ==
    /\ gen = 1 /\ reqs >= 1 /\ lastRaw > duration /\ duration % Step # 0
    /\ currentTime = duration - 1
    /\ \E i \in FramesOf(reqs) : attempts[i].time = currentTime

\* C10: when the 100 ms timer of a load fires after its metadata arrived with
\* selectedTimestamp absent or inside [0, duration], and the capture succeeds,
\* the status becomes Ready and the log holds exactly one initial frame of
\* that load, with timestamp selectedTimestamp (0 when absent).
C10_InitialCaptureThenReady ==
    [][(/\ InitialTimerFires /\ mounted /\ videoSrc = gen
        /\ decoder = "ready" /\ decoder' = "ready"
        /\ OrZero(selectedTimestamp) \in 0..duration
        /\ \A i \in NewAttempts : attempts'[i].ok)
       => /\ Status' = "Ready"
          /\ \E i \in 1..Len(attempts') :
                /\ attempts'[i].via = "initial" /\ attempts'[i].gen = gen
                /\ attempts'[i].ok
                /\ attempts'[i].time = OrZero(selectedTimestamp)
                /\ \A j \in 1..Len(attempts') :
                      (attempts'[j].via = "initial" /\ attempts'[j].gen = gen)
                         => j = i]_vars

\* The onFrameSelect invocations made by callbacks of effect run g.
FramesOfRun(g) == {i \in 1..Len(attempts) : attempts[i].gen = g /\ attempts[i].ok}

\* C11: when the decoder rejects the current file (an error event and no
\* metadata), the status is Error with a message and no callback registered
\* for that file has invoked onFrameSelect.
C11_RejectedFileDeliversNothing ==
    (mounted /\ videoSrc = gen /\ decoder = "rejected")
       => /\ Status = "Error" /\ error # NoError
          /\ FramesOfRun(gen) = {}

\* C12: while the same file stays assigned and the component stays mounted, no
\* step runs the initialize effect again: the blob URL and the src of the video
\* are kept and the status never goes back from Ready to Loading.
C12_OneHandlePerFile ==
    [][(mounted /\ mounted' /\ hasElements /\ videoFile' = videoFile)
          => /\ urls' = urls /\ videoSrc' = videoSrc
             /\ ~(Status = "Ready" /\ Status' = "Loading")]_vars

\* The current step is a callback in which captureFrame failed.
FailedCaptureStep == failures' # failures

\* C13 as stated: a failed capture invokes onFrameSelect zero times and leaves
\* status, currentTime and duration unchanged.
C13_FailedCaptureChangesNothing ==
    [][FailedCaptureStep =>
          /\ NewAttempts # {}
          /\ \A i \in NewAttempts : ~attempts'[i].ok
          /\ Status' = Status
          /\ currentTime' = currentTime
          /\ duration' = duration]_vars

\* C13 amended: a failed capture invokes onFrameSelect zero times and leaves
\* the error message, currentTime and duration unchanged; the callback goes on
\* after it, so a failed seek capture leaves the status unchanged and a failed
\* initial capture still ends the loading, as a successful one does; the
\* slider stays available for a later request.
C13_FailedCaptureIsTransient ==
    [][FailedCaptureStep =>
          /\ NewAttempts # {}
          /\ \A i \in NewAttempts : ~attempts'[i].ok
          /\ error' = error
          /\ currentTime' = currentTime
          /\ duration' = duration
          /\ \/ Status' = Status
             \/ /\ \E i \in NewAttempts : attempts'[i].via = "initial"
                /\ Status = "Loading" /\ Status' = "Ready"
          /\ SliderRendered => SliderRendered']_vars

\* C13 witness: the initial capture failed and a later request has delivered
\* a frame.
C13_Witness ==
    \E i, j \in 1..Len(attempts) :
       /\ i < j
       /\ attempts[i].via = "initial" /\ ~attempts[i].ok
       /\ attempts[j].req >= 1 /\ attempts[j].ok
       /\ attempts[j].time = requests[attempts[j].req]

\* C14: a handleSliderChange call sets currentTime to the requested time in the
\* same step, in which no capture is made yet, and leaves status and duration
\* unchanged.
C14_OptimisticCurrentTime ==
    [][RequestStep =>
          /\ currentTime' = requests'[Len(requests')]
          /\ attempts' = attempts
          /\ Status' = Status
          /\ duration' = duration]_vars

\* C14 witness: currentTime shows a request that has changed it and for which
\* no capture has been attempted.
C14_Witness ==
    /\ reqs >= 1 /\ AttemptsOf(reqs) = {}
    /\ currentTime = requests[reqs]
    /\ currentTime # OrZero(selectedTimestamp)
    /\ \A i \in 1..Len(attempts) : attempts[i].time # currentTime

\* C15: the status leaves Error only when a new file is assigned, and then it
\* becomes Loading with the error message cleared; it stays Error under every
\* decoder notification and timer.
C15_ErrorIsTerminalForFile ==
    [][(mounted /\ mounted' /\ Status = "Error" /\ Status' # "Error")
          => /\ videoFile' # videoFile
             /\ Status' = "Loading" /\ error' = NoError]_vars

\* C16: whenever captureFrame is called with time T, the video has announced
\* its metadata without an error and the position last assigned to
\* video.currentTime is T.
C16_CaptureAtCommandedPosition ==
    [][\A i \in NewAttempts :
          decoder = "ready" /\ videoCurrentTime = attempts'[i].time]_vars

\* The 500 ms timer of request r is pending.
SeekTimerPending(r) ==
    \E i \in 1..Len(timers) : timers[i].kind = "seek" /\ timers[i].req = r

\* C17: with one file assigned and no failed capture, once no 500 ms timer is
\* pending after at least one request, the last onFrameSelect invocation is
\* the one of the last request and carries currentTime.
C17_LastFrameIsLastRequest ==
    (/\ mounted /\ videoFile = 1 /\ failures = 0 /\ reqs >= 1
     /\ \A r \in 1..reqs : ~SeekTimerPending(r))
       => /\ Frames # <<>>
          /\ Frames[Len(Frames)].req = reqs
          /\ Frames[Len(Frames)].time = requests[reqs]
          /\ Frames[Len(Frames)].time = currentTime

\* The onFrameSelect invocations of request r that came by the path via.
FramesVia(r, via) == {i \in FramesOf(r) : attempts[i].via = via}

\* C18: with no failed capture, every request has at most one onFrameSelect
\* invocation from its seeked listener and at most one from its 500 ms timer,
\* each carrying the request's time, and exactly one from the timer once the
\* timer is no longer pending: between n and 2n invocations for n requests.
C18_OneOrTwoFramesPerRequest ==
    failures = 0 =>
       /\ \A r \in 1..reqs :
             /\ FramesOf(r) = FramesVia(r, "seeked") \cup FramesVia(r, "timer")
             /\ Cardinality(FramesVia(r, "seeked")) <= 1
             /\ Cardinality(FramesVia(r, "timer")) <= 1
             /\ \A i \in FramesOf(r) : attempts[i].time = requests[r]
             /\ ~SeekTimerPending(r) => Cardinality(FramesVia(r, "timer")) = 1
       /\ (\A r \in 1..reqs : ~SeekTimerPending(r))
             => /\ Cardinality(UNION {FramesOf(r) : r \in 1..reqs}) >= reqs
                /\ Cardinality(UNION {FramesOf(r) : r \in 1..reqs}) <= 2 * reqs

\* C18 witness: all timers have fired; one request delivered twice and another
\* one once.
C18_Witness ==
    /\ failures = 0 /\ reqs >= 2
    /\ \A r \in 1..reqs : ~SeekTimerPending(r)
    /\ \E r \in 1..reqs : Cardinality(FramesOf(r)) = 2
    /\ \E r \in 1..reqs : Cardinality(FramesOf(r)) = 1

\* C19: every registered seeked listener belongs to a request whose 500 ms
\* timer is still pending, and a request has at most one listener; so when no
\* 500 ms timer is pending no seeked listener is registered.
C19_ListenersDoNotAccumulate ==
    /\ \A i \in 1..Len(seekedListeners) :
          /\ SeekTimerPending(seekedListeners[i].req)
          /\ \A j \in 1..Len(seekedListeners) :
                seekedListeners[j].req = seekedListeners[i].req => j = i
    /\ (\A r \in 1..reqs : ~SeekTimerPending(r)) => seekedListeners = <<>>

\* C19 witness: a request whose listener never ran (its only capture came
\* from the timer) has its timer fired, and no listener is registered.
C19_Witness ==
    /\ seekedListeners = <<>>
    /\ \E r \in 1..reqs :
          /\ ~SeekTimerPending(r)
          /\ \A i \in AttemptsOf(r) : attempts[i].via = "timer"
          /\ AttemptsOf(r) # {}

=============================================================================
